---- MODULE Spec2Model ----
(***************************************************************************)
(* A model of Stock_NSE.py: the quote fetcher (get_stock_info), the thread *)
(* worker (fetch_and_store), the market clock (is_market_open) and the     *)
(* poll loop of main with its fetch threads and the MongoDB sink.          *)
(*                                                                         *)
(* Three specifications share the definitions below:                       *)
(*   Spec       the poll loop of main, its fetch threads and the sink;     *)
(*   SpecFetch  one call of fetch_and_store on every HTTP outcome and      *)
(*              document of the bounded alphabets;                         *)
(*   SpecClock  one call of is_market_open on a grid of wall-clock times.  *)
(***************************************************************************)
EXTENDS Integers, Sequences, FiniteSets, TLC

VARIABLES
    \* ---- main (Spec) ----
    tickers,      \* main: the list `tickers` (line 94)
    pc,           \* main: position of the main thread
    now,          \* wall clock, in seconds since Monday 00:00:00
    iter,         \* number of evaluations of `is_market_open()` so far
    cycle,        \* number of open-market iterations entered so far
    launchIdx,    \* position of `for ticker in tickers` (line 109)
    joinIdx,      \* position of `for t in threads` (line 115)
    thr,          \* the Thread objects that are alive or still referenced
    results,      \* the list `results` of the current iteration (line 105)
    sunk,         \* argument of insert_many in the current iteration
    sinkCalls,    \* insert_many calls made in the current iteration
    totalCalls,   \* insert_many calls that returned, over the whole run
    totalRecords, \* records inserted, over the whole run
    waitNotices,  \* "Market closed. Waiting..." lines printed
    exitNotices,  \* "Exiting on user interrupt." lines printed
    lastEval,     \* when is_market_open was last evaluated, and its result
    intrAt,       \* where the main thread was when KeyboardInterrupt arrived
    \* ---- one fetch_and_store call (SpecFetch) ----
    fpc, fticker, fresp, fret, fresults, fline, fraised,
    \* ---- one is_market_open call (SpecClock) ----
    cpc, cnow, cret

loopVars == <<tickers, pc, now, iter, cycle, launchIdx, joinIdx, thr, results,
              sunk, sinkCalls, totalCalls, totalRecords, waitNotices,
              exitNotices, lastEval, intrAt>>
fetchVars == <<fpc, fticker, fresp, fret, fresults, fline, fraised>>
clockVars == <<cpc, cnow, cret>>
vars == <<loopVars, fetchVars, clockVars>>

----------------------------------------------------------------------------
\* Bounds of the model.

\* longest ticker list entered at the prompt
MaxTickers == 2
\* evaluations of is_market_open after which the model stops following the loop
MaxIter == 3
\* longest text of the company-name element, in characters
MaxNameLen == 2
\* longest text of the price element, in characters
MaxPriceLen == 3

\* Program constants.
HTTP_OK == 200
OPEN_HOUR == 9
OPEN_MINUTE == 15
CLOSE_HOUR == 15
CLOSE_MINUTE == 30
SATURDAY == 5
SHORT_SLEEP == 5
\* The closed-market branch sleeping the open-market interval.
LONG_SLEEP_as_short == SHORT_SLEEP
LONG_SLEEP == 60

----------------------------------------------------------------------------
\* Python values: None, str (a sequence of characters) and float.  The prices
\* of the model are whole numbers; the price alphabet has no decimal point.

PyNone == [t |-> "None"]
PyStr(s) == [t |-> "str", s |-> s]
PyFloat(x) == [t |-> "float", x |-> x]

\* bool(v) as Python's `if` and the conditional expression evaluate it.
Truthy(v) ==
    CASE v.t = "None" -> FALSE
      [] v.t = "str" -> v.s # <<>>
      [] v.t = "float" -> v.x # 0

\* The literal "N/A" of lines 45, 70 and 71.
NA == PyStr(<<"N", "/", "A">>)

\* Characters.  "INR" stands for the rupee sign of line 51.
NameChars == {" ", "A"}
PriceChars == {"INR", ",", "-", "0", "1", "x"}
Whitespace == {" "}

RECURSIVE SeqsUpTo(_, _)
SeqsUpTo(S, n) ==
    IF n = 0 THEN {<<>>}
    ELSE LET shorter == SeqsUpTo(S, n - 1)
         IN shorter \cup {Append(s, c) : s \in shorter, c \in S}

\* str.strip()
RECURSIVE LStrip(_)
LStrip(s) ==
    IF s # <<>> /\ Head(s) \in Whitespace THEN LStrip(Tail(s)) ELSE s

RECURSIVE RStrip(_)
RStrip(s) ==
    IF s # <<>> /\ s[Len(s)] \in Whitespace
    THEN RStrip(SubSeq(s, 1, Len(s) - 1)) ELSE s

Strip(s) == LStrip(RStrip(s))

\* str.replace(ch, '')
Remove(s, ch) == SelectSeq(s, LAMBDA c : c # ch)

DigitVal(c) ==
    CASE c = "0" -> 0 [] c = "1" -> 1 [] c = "2" -> 2 [] c = "3" -> 3
      [] c = "4" -> 4 [] c = "5" -> 5 [] c = "6" -> 6 [] c = "7" -> 7
      [] c = "8" -> 8 [] c = "9" -> 9
Digits == {"0", "1", "2", "3", "4", "5", "6", "7", "8", "9"}

RECURSIVE DigitsValue(_)
DigitsValue(s) ==
    IF s = <<>> THEN 0
    ELSE 10 * DigitsValue(SubSeq(s, 1, Len(s) - 1)) + DigitVal(s[Len(s)])

\* float(s) on the characters of the model: an optional sign and at least one
\* digit; anything else raises ValueError.
FloatParses(s) ==
    LET body == IF s # <<>> /\ Head(s) \in {"-", "+"} THEN Tail(s) ELSE s
    IN body # <<>> /\ \A i \in 1..Len(body) : body[i] \in Digits

FloatValue(s) ==
    IF Head(s) = "-" THEN 0 - DigitsValue(Tail(s))
    ELSE IF Head(s) = "+" THEN DigitsValue(Tail(s))
    ELSE DigitsValue(s)

----------------------------------------------------------------------------
\* The HTTP outcome of requests.get and the parsed document.

\* What soup.find returns: None, or a Tag with its text.
NoTag == [present |-> FALSE, text |-> <<>>]
Tag(s) == [present |-> TRUE, text |-> s]

\* The tags whose text is at most n characters of the alphabet.
TagsOver(chars, n) == {NoTag} \cup {Tag(s) : s \in SeqsUpTo(chars, n)}

\* A document: the first div of class "zzDege", the first div of class
\* "YMlKec fxKbKc" and the first div of class "YMlKec".  The right operand of
\* `or` on line 48 is evaluated only when the left one found nothing, so a
\* document of the model carries its price element in one of the two places.
Document(nameTag, priceTag, asPrimary) ==
    [name |-> nameTag,
     primary |-> IF asPrimary THEN priceTag ELSE NoTag,
     fallback |-> IF asPrimary THEN NoTag ELSE priceTag]

EmptyDoc == Document(NoTag, NoTag, TRUE)

StatusCodes == {HTTP_OK, 404, 503}

\* Exceptions requests.get raises; all are subclasses of Exception.
RequestExceptions == {"Timeout", "ConnectionError"}
ExceptionSubclasses == {"Timeout", "ConnectionError", "ValueError"}

HttpResponse(status, doc) ==
    [kind |-> "response", status |-> status, exc |-> "", doc |-> doc]
FailedRequest(e) ==
    [kind |-> "exception", status |-> 0, exc |-> e, doc |-> EmptyDoc]

Tickers == {"INFY", "TCS"}

----------------------------------------------------------------------------
\* get_stock_info (lines 18-59).

\* What a call gives back: a returned pair (name, price) with the kind of
\* diagnostic written to stderr, or an exception leaving the function.
Returned(name, price, err) ==
    [raised |-> FALSE, name |-> name, price |-> price, err |-> err]
Propagated(e) ==
    [raised |-> TRUE, name |-> PyNone, price |-> PyNone, err |-> e]

\* A handler that names ValueError only.
RequestCaught_value_errors_only(e) == e = "ValueError"

\* `except Exception` (line 37)
RequestCaught(e) == e \in ExceptionSubclasses

\* lines 44-45
company_name_of(doc) ==
    IF doc.name.present THEN PyStr(Strip(doc.name.text)) ELSE NA

\* line 48
find_price_tag(doc) ==
    IF doc.primary.present THEN doc.primary ELSE doc.fallback

\* lines 50-51
price_clean(tag) == Remove(Remove(Strip(tag.text), "INR"), ",")

\* A handler of ValueError that falls back to 0.0 instead of None.
parse_price_default_zero(tag) ==
    IF tag.present
    THEN IF FloatParses(price_clean(tag))
         THEN PyFloat(FloatValue(price_clean(tag)))
         ELSE PyFloat(0)
    ELSE PyNone

\* lines 49-57
parse_price(tag) ==
    IF tag.present
    THEN IF FloatParses(price_clean(tag))
         THEN PyFloat(FloatValue(price_clean(tag)))
         ELSE PyNone
    ELSE PyNone

\* The status code is not looked at: every response is parsed.
get_stock_info_any_status(resp) ==
    IF resp.kind = "exception"
    THEN IF RequestCaught(resp.exc)
         THEN Returned(PyNone, PyNone, "exception")
         ELSE Propagated(resp.exc)
    ELSE Returned(company_name_of(resp.doc),
                  parse_price(find_price_tag(resp.doc)), "none")

get_stock_info(resp) ==
    IF resp.kind = "exception"
    THEN IF RequestCaught(resp.exc)
         THEN Returned(PyNone, PyNone, "exception")
         ELSE Propagated(resp.exc)
    ELSE IF resp.status # HTTP_OK
    THEN Returned(PyNone, PyNone, "status")
    ELSE Returned(company_name_of(resp.doc),
                  parse_price(find_price_tag(resp.doc)), "none")

----------------------------------------------------------------------------
\* fetch_and_store (lines 62-79).

\* lines 67-72
make_record(ticker, ret, ts) ==
    [timestamp |-> ts,
     ticker |-> ticker,
     company_name |-> IF Truthy(ret.name) THEN ret.name ELSE NA,
     price |-> IF Truthy(ret.price) THEN ret.price ELSE NA]

\* lines 74-77: the line printed to stdout
status_line(ticker, ret) ==
    IF ret.name = PyNone \/ ret.price = PyNone
    THEN [kind |-> "failure", ticker |-> ticker,
          name |-> PyNone, price |-> PyNone]
    ELSE [kind |-> "success", ticker |-> ticker,
          name |-> ret.name, price |-> ret.price]

NoLine == [kind |-> "none", ticker |-> "", name |-> PyNone, price |-> PyNone]
NoReturn == Returned(PyNone, PyNone, "none")

\* An append that is not atomic: two writers take the same slot and the later
\* write replaces the earlier one.
list_append_lost_update(list, record) ==
    IF list = <<>> THEN <<record>> ELSE [list EXCEPT ![Len(list)] = record]

\* line 79
list_append(list, record) == Append(list, record)

----------------------------------------------------------------------------
\* is_market_open (lines 82-89).

\* datetime.replace(hour=h, minute=m, second=0, microsecond=0)
Replace(dt, h, m) ==
    [dt EXCEPT !.hour = h, !.minute = m, !.second = 0, !.microsecond = 0]

\* a < b: the window compared with strict bounds.
DtLess(a, b) ==
    \/ a.hour < b.hour
    \/ a.hour = b.hour /\ a.minute < b.minute
    \/ a.hour = b.hour /\ a.minute = b.minute /\ a.second < b.second
    \/ /\ a.hour = b.hour /\ a.minute = b.minute /\ a.second = b.second
       /\ a.microsecond < b.microsecond

\* a <= b for two datetimes of the same date
DtLeq(a, b) ==
    \/ a.hour < b.hour
    \/ a.hour = b.hour /\ a.minute < b.minute
    \/ a.hour = b.hour /\ a.minute = b.minute /\ a.second < b.second
    \/ /\ a.hour = b.hour /\ a.minute = b.minute /\ a.second = b.second
       /\ a.microsecond <= b.microsecond

is_market_open(dt) ==
    IF dt.weekday >= SATURDAY THEN FALSE
    ELSE /\ DtLeq(Replace(dt, OPEN_HOUR, OPEN_MINUTE), dt)
         /\ DtLeq(dt, Replace(dt, CLOSE_HOUR, CLOSE_MINUTE))

\* The wall-clock times SpecClock evaluates: every weekday and hour, the
\* minutes, seconds and microseconds around the two bounds of the window.
ClockGrid ==
    {[weekday |-> w, hour |-> h, minute |-> m, second |-> s, microsecond |-> u] :
        w \in 0..6, h \in 0..23, m \in {0, 14, 15, 16, 29, 30, 31, 59},
        s \in {0, 1, 59}, u \in {0, 1, 999999}}

\* The datetime of a loop clock value (seconds since Monday 00:00:00).
DateTimeOf(t) ==
    [weekday |-> (t \div 86400) % 7,
     hour |-> (t % 86400) \div 3600,
     minute |-> (t % 3600) \div 60,
     second |-> t % 60,
     microsecond |-> 0]

At(weekday, hour, minute, second) ==
    weekday * 86400 + hour * 3600 + minute * 60 + second

----------------------------------------------------------------------------
\* Idle values of the variables a specification does not use.

LoopIdle ==
    /\ tickers = <<>> /\ pc = "off" /\ now = 0 /\ iter = 0 /\ cycle = 0
    /\ launchIdx = 0 /\ joinIdx = 0 /\ thr = <<>> /\ results = <<>>
    /\ sunk = <<>> /\ sinkCalls = 0 /\ totalCalls = 0 /\ totalRecords = 0
    /\ waitNotices = 0 /\ exitNotices = 0
    /\ lastEval = [at |-> 0, open |-> FALSE] /\ intrAt = "none"

FetchIdle ==
    /\ fpc = "off" /\ fticker = "" /\ fresp = [kind |-> "none"]
    /\ fret = NoReturn /\ fresults = <<>> /\ fline = NoLine /\ fraised = FALSE

ClockIdle ==
    /\ cpc = "off" /\ cret = FALSE
    /\ cnow = [weekday |-> 0, hour |-> 0, minute |-> 0, second |-> 0,
               microsecond |-> 0]

----------------------------------------------------------------------------
\* SpecFetch: one call of fetch_and_store(ticker, results) on every outcome.

InitFetch ==
    /\ LoopIdle /\ ClockIdle
    /\ fpc = "start"
    /\ fticker \in Tickers
    /\ \/ \E e \in RequestExceptions : fresp = FailedRequest(e)
       \/ \E s \in StatusCodes, n \in TagsOver(NameChars, MaxNameLen),
             p \in TagsOver(PriceChars, MaxPriceLen), asPrimary \in BOOLEAN :
             fresp = HttpResponse(s, Document(n, p, asPrimary))
    /\ fret = NoReturn
    /\ fresults = <<>>
    /\ fline = NoLine
    /\ fraised = FALSE

FetchAndStore ==
    /\ fpc = "start"
    /\ LET ret == get_stock_info(fresp)
       IN /\ fret' = ret
          /\ IF ret.raised
             THEN /\ fpc' = "raised"
                  /\ fraised' = TRUE
                  /\ UNCHANGED <<fresults, fline>>
             ELSE /\ fpc' = "done"
                  /\ fline' = status_line(fticker, ret)
                  /\ fresults' = list_append(fresults, make_record(fticker, ret, 0))
                  /\ UNCHANGED fraised
    /\ UNCHANGED <<fticker, fresp, loopVars, clockVars>>

NextFetch == FetchAndStore

SpecFetch == InitFetch /\ [][NextFetch]_vars

----------------------------------------------------------------------------
\* SpecClock: one call of is_market_open() at every time of ClockGrid.

InitClock ==
    /\ LoopIdle /\ FetchIdle
    /\ cpc = "start"
    /\ cnow \in ClockGrid
    /\ cret = FALSE

EvalClock ==
    /\ cpc = "start"
    /\ cret' = is_market_open(cnow)
    /\ cpc' = "done"
    /\ UNCHANGED <<cnow, loopVars, fetchVars>>

NextClock == EvalClock

SpecClock == InitClock /\ [][NextClock]_vars

----------------------------------------------------------------------------
\* Spec: main (lines 92-128), its fetch threads and the sink.

\* The ticker lists line 94 can produce, the empty one included.
TickerLists == SeqsUpTo(Tickers, MaxTickers)

\* Wall-clock times at which the program is started: a minute before the
\* window opens, five seconds before it closes, on a Saturday, mid-session.
StartTimes ==
    {At(0, 9, 14, 0), At(4, 15, 29, 55), At(5, 12, 0, 0), At(2, 10, 0, 0)}

WEEK == 7 * 86400

\* The outcomes the threads of the loop meet: a timed-out request, a page
\* with both elements, a page whose price reads zero, a status other than
\* 200, a page without the price element, a price text that is no number.
RespTimeout == FailedRequest("Timeout")
RespGood ==
    HttpResponse(HTTP_OK, Document(Tag(<<"A">>), Tag(<<"INR", "1", "0">>), TRUE))
RespZero ==
    HttpResponse(HTTP_OK, Document(Tag(<<"A">>), Tag(<<"0">>), FALSE))
RespNotFound == HttpResponse(404, EmptyDoc)
RespNoPrice == HttpResponse(HTTP_OK, Document(Tag(<<"A">>), NoTag, TRUE))
RespNotNumeric ==
    HttpResponse(HTTP_OK, Document(Tag(<<"A">>), Tag(<<"x">>), TRUE))
LoopOutcomes ==
    {RespTimeout, RespGood, RespZero, RespNotFound, RespNoPrice,
     RespNotNumeric}

NoRecord ==
    [timestamp |-> 0, ticker |-> "", company_name |-> NA, price |-> NA]

\* threading.Thread(target=fetch_and_store, args=(ticker, results)) (line 110)
NewThread(ticker) ==
    [ticker |-> ticker, cyc |-> cycle, st |-> "fetching",
     rec |-> NoRecord, line |-> NoLine]

\* A thread whose target has returned or died.
Finished(t) == t.st \in {"done", "died"}

\* The list `threads` of the current iteration (lines 106, 111).
CurThreads == SelectSeq(thr, LAMBDA t : t.cyc = cycle)

\* A join that does not wait (a zero timeout).
join_returns_at_once(t) == TRUE

\* t.join() (line 116) returns once the thread has finished.
join_returns(t) == Finished(t)

\* The write left out.
sink_calls_skipped(list) == <<>>

\* One write per record instead of one per iteration.
sink_calls_per_record(list) == [i \in 1..Len(list) |-> <<list[i]>>]

\* lines 119-120: the insert_many calls made for a results list, each with
\* its argument: none for an empty list, one with the whole list otherwise.
sink_calls(list) == IF list # <<>> THEN <<list>> ELSE <<>>

RECURSIVE TotalLen(_)
\* The list made once, before the loop, and used by every iteration.
new_results_reused(previous) == previous

\* `results = []` (line 105): the name is bound to a new, empty list; the
\* list of the iteration before is let go.
new_results(previous) == <<>>

\* The check left out.
no_tickers_never(list) == FALSE

\* `if not tickers` (line 96): an empty list is false.
no_tickers(list) == list = <<>>

\* Exceptions insert_many raises (pymongo.errors); none is a
\* KeyboardInterrupt.
SinkExceptions == {"BulkWriteError", "ServerSelectionTimeoutError"}

\* A handler that catches everything (a bare except).
main_catches_any(e) == TRUE

\* `except KeyboardInterrupt` (line 127)
main_catches(e) == e = "KeyboardInterrupt"

TotalLen(calls) ==
    IF calls = <<>> THEN 0 ELSE Len(Head(calls)) + TotalLen(Tail(calls))

\* A sleep that swallows the interrupt.
LoopPcs_without_sleeps == {"check", "launch", "join", "sink"}

\* An interrupt that is held back while an iteration is under way.
LoopPcs_between_cycles == {"check", "sleep_short", "sleep_long"}

\* The positions of main at which KeyboardInterrupt can be raised inside the
\* try block (lines 102-126).
LoopPcs == {"check", "launch", "join", "sink", "sleep_short", "sleep_long"}

Init ==
    /\ FetchIdle /\ ClockIdle
    /\ tickers \in TickerLists
    /\ pc = "start"
    /\ now \in StartTimes
    /\ iter = 0 /\ cycle = 0 /\ launchIdx = 0 /\ joinIdx = 0
    /\ thr = <<>> /\ results = <<>> /\ sunk = <<>>
    /\ sinkCalls = 0 /\ totalCalls = 0 /\ totalRecords = 0
    /\ waitNotices = 0 /\ exitNotices = 0
    /\ lastEval = [at |-> 0, open |-> FALSE]
    /\ intrAt = "none"

\* lines 96-100
Start ==
    /\ pc = "start"
    /\ pc' = IF no_tickers(tickers) THEN "returned" ELSE "check"
    /\ UNCHANGED <<tickers, now, iter, cycle, launchIdx, joinIdx, thr, results,
                   sunk, sinkCalls, totalCalls, totalRecords, waitNotices,
                   exitNotices, lastEval, intrAt, fetchVars, clockVars>>

\* lines 104-106: the clock says open; a new results list and threads list
CheckOpen ==
    /\ pc = "check"
    /\ iter < MaxIter
    /\ is_market_open(DateTimeOf(now))
    /\ iter' = iter + 1
    /\ lastEval' = [at |-> now, open |-> TRUE]
    /\ cycle' = cycle + 1
    /\ results' = new_results(results)
    /\ thr' = SelectSeq(thr, LAMBDA t : ~Finished(t))
    /\ launchIdx' = 0
    /\ joinIdx' = 0
    /\ sunk' = <<>>
    /\ sinkCalls' = 0
    /\ pc' = "launch"
    /\ UNCHANGED <<tickers, now, totalCalls, totalRecords, waitNotices,
                   exitNotices, intrAt, fetchVars, clockVars>>

\* lines 104, 124-125: the clock says closed; the waiting notice
CheckClosed ==
    /\ pc = "check"
    /\ iter < MaxIter
    /\ ~is_market_open(DateTimeOf(now))
    /\ iter' = iter + 1
    /\ lastEval' = [at |-> now, open |-> FALSE]
    /\ waitNotices' = waitNotices + 1
    /\ pc' = "sleep_long"
    /\ UNCHANGED <<tickers, now, cycle, launchIdx, joinIdx, thr, results, sunk,
                   sinkCalls, totalCalls, totalRecords, exitNotices, intrAt,
                   fetchVars, clockVars>>

\* lines 109-112: one pass of the launch loop
Launch ==
    /\ pc = "launch"
    /\ launchIdx < Len(tickers)
    /\ thr' = Append(thr, NewThread(tickers[launchIdx + 1]))
    /\ launchIdx' = launchIdx + 1
    /\ pc' = IF launchIdx + 1 = Len(tickers) THEN "join" ELSE "launch"
    /\ UNCHANGED <<tickers, now, iter, cycle, joinIdx, results, sunk,
                   sinkCalls, totalCalls, totalRecords, waitNotices,
                   exitNotices, lastEval, intrAt, fetchVars, clockVars>>

\* lines 115-116: one pass of the join loop
Join ==
    /\ pc = "join"
    /\ joinIdx < Len(CurThreads)
    /\ join_returns(CurThreads[joinIdx + 1])
    /\ joinIdx' = joinIdx + 1
    /\ pc' = IF joinIdx + 1 = Len(CurThreads) THEN "sink" ELSE "join"
    /\ UNCHANGED <<tickers, now, iter, cycle, launchIdx, thr, results, sunk,
                   sinkCalls, totalCalls, totalRecords, waitNotices,
                   exitNotices, lastEval, intrAt, fetchVars, clockVars>>

\* lines 119-120: insert_many returns
InsertMany ==
    /\ pc = "sink"
    /\ LET calls == sink_calls(results)
       IN /\ sunk' = IF calls # <<>> THEN calls[Len(calls)] ELSE sunk
          /\ sinkCalls' = sinkCalls + Len(calls)
          /\ totalCalls' = totalCalls + Len(calls)
          /\ totalRecords' = totalRecords + TotalLen(calls)
    /\ pc' = "sleep_short"
    /\ UNCHANGED <<tickers, now, iter, cycle, launchIdx, joinIdx, thr, results,
                   waitNotices, exitNotices, lastEval, intrAt, fetchVars,
                   clockVars>>

\* lines 119-120: insert_many raises.  The only handler around the loop is
\* the one of line 127; an exception it does not name leaves main.
InsertManyFails ==
    /\ pc = "sink"
    /\ sink_calls(results) # <<>>
    /\ sunk' = sink_calls(results)[1]
    /\ sinkCalls' = sinkCalls + 1
    /\ \E e \in SinkExceptions :
         IF main_catches(e)
         THEN /\ pc' = "exited"
              /\ exitNotices' = exitNotices + 1
              /\ intrAt' = pc
         ELSE /\ pc' = "crashed"
              /\ UNCHANGED <<exitNotices, intrAt>>
    /\ UNCHANGED <<tickers, now, iter, cycle, launchIdx, joinIdx, thr, results,
                   totalCalls, totalRecords, waitNotices, lastEval, fetchVars,
                   clockVars>>

\* line 123.  The clock of the model advances in the sleeps only; the time
\* the fetches take is not counted.
SleepShort ==
    /\ pc = "sleep_short"
    /\ now' = (now + SHORT_SLEEP) % WEEK
    /\ pc' = "check"
    /\ UNCHANGED <<tickers, iter, cycle, launchIdx, joinIdx, thr, results, sunk,
                   sinkCalls, totalCalls, totalRecords, waitNotices,
                   exitNotices, lastEval, intrAt, fetchVars, clockVars>>

\* line 126
SleepLong ==
    /\ pc = "sleep_long"
    /\ now' = (now + LONG_SLEEP) % WEEK
    /\ pc' = "check"
    /\ UNCHANGED <<tickers, iter, cycle, launchIdx, joinIdx, thr, results, sunk,
                   sinkCalls, totalCalls, totalRecords, waitNotices,
                   exitNotices, lastEval, intrAt, fetchVars, clockVars>>

\* lines 127-128: KeyboardInterrupt is raised in the main thread, wherever it
\* is inside the try block, a blocking join or sleep included (CPython runs
\* the signal handler between bytecodes and inside lock waits).  The fetch
\* threads are not daemons and are not told to stop: they keep running.
Interrupt ==
    /\ pc \in LoopPcs
    /\ intrAt' = pc
    /\ exitNotices' = exitNotices + 1
    /\ pc' = "exited"
    /\ UNCHANGED <<tickers, now, iter, cycle, launchIdx, joinIdx, thr, results,
                   sunk, sinkCalls, totalCalls, totalRecords, waitNotices,
                   lastEval, fetchVars, clockVars>>

\* A fetch thread, lines 64-77: the request ends, the record is built and
\* the status line printed.
ThreadFetch(i) ==
    /\ thr[i].st = "fetching"
    /\ \E resp \in LoopOutcomes :
         LET ret == get_stock_info(resp)
         IN thr' = [thr EXCEPT ![i] =
                IF ret.raised
                THEN [@ EXCEPT !.st = "died"]
                ELSE [@ EXCEPT !.st = "appending",
                               !.rec = make_record(thr[i].ticker, ret, now),
                               !.line = status_line(thr[i].ticker, ret)]]
    /\ UNCHANGED <<tickers, pc, now, iter, cycle, launchIdx, joinIdx, results,
                   sunk, sinkCalls, totalCalls, totalRecords, waitNotices,
                   exitNotices, lastEval, intrAt, fetchVars, clockVars>>

\* A fetch thread, line 79: the append to the list it was given, one atomic
\* step (list.append is a single operation under the interpreter lock).  A
\* thread of an earlier iteration holds that iteration's list, not the
\* current one.
ThreadAppend(i) ==
    /\ thr[i].st = "appending"
    /\ thr' = [thr EXCEPT ![i].st = "done"]
    /\ results' = IF thr[i].cyc = cycle
                  THEN list_append(results, thr[i].rec)
                  ELSE results
    /\ UNCHANGED <<tickers, pc, now, iter, cycle, launchIdx, joinIdx, sunk,
                   sinkCalls, totalCalls, totalRecords, waitNotices,
                   exitNotices, lastEval, intrAt, fetchVars, clockVars>>

Next ==
    \/ Start
    \/ CheckOpen
    \/ CheckClosed
    \/ Launch
    \/ Join
    \/ InsertMany
    \/ InsertManyFails
    \/ SleepShort
    \/ SleepLong
    \/ Interrupt
    \/ \E i \in DOMAIN thr : ThreadFetch(i)
    \/ \E i \in DOMAIN thr : ThreadAppend(i)

Spec == Init /\ [][Next]_vars

\* The loop with no interrupt and no failure of the sink.  The main thread
\* keeps running: a sleep ends, a join returns once its thread has finished,
\* insert_many returns.  Every request returns or times out (timeout=10 on
\* line 32) and the interpreter schedules every thread, so a thread that can
\* take a step takes it.
ThreadStep == \E i \in DOMAIN thr : ThreadFetch(i) \/ ThreadAppend(i)

MainStep ==
    \/ Start
    \/ CheckOpen
    \/ CheckClosed
    \/ Launch
    \/ Join
    \/ InsertMany
    \/ SleepShort
    \/ SleepLong

NextLive == MainStep \/ ThreadStep

SpecLive ==
    Init /\ [][NextLive]_vars /\ WF_vars(MainStep) /\ WF_vars(ThreadStep)

----------------------------------------------------------------------------
\* Properties of the poll loop (Spec).

Count(seq, x) == Cardinality({i \in DOMAIN seq : seq[i] = x})
TickersOf(batch) == [i \in DOMAIN batch |-> batch[i].ticker]
IsFailedRecord(r) == r.company_name = NA /\ r.price = NA

\* C1: the batch handed to the sink in an iteration holds exactly one record
\* per input ticker, duplicates included: as many records as tickers, and
\* every ticker as often as it occurs in the input, whatever the interleaving
\* of the threads and whatever their fetches returned.
C1_BatchIsTheInput ==
    sinkCalls > 0 =>
        /\ Len(sunk) = Len(tickers)
        /\ \A t \in Tickers : Count(TickersOf(sunk), t) = Count(tickers, t)

\* A batch of two records for the same ticker entered twice, both failed.
C1_Witness ==
    /\ sinkCalls > 0
    /\ Len(tickers) = 2 /\ tickers[1] = tickers[2]
    /\ Len(sunk) = 2
    /\ \A i \in DOMAIN sunk : IsFailedRecord(sunk[i])

\* C2: when insert_many has been called in an iteration, every thread the
\* iteration launched (one per ticker) has finished and appended its record;
\* none is still fetching or about to append.
C2_SinkAfterAllThreads ==
    sinkCalls > 0 =>
        /\ Len(CurThreads) = Len(tickers)
        /\ \A i \in DOMAIN thr : thr[i].cyc = cycle => thr[i].st = "done"
        /\ Len(results) = Len(tickers)

\* The sink was called in a second iteration with two threads, the second
\* of which appended before the first.
C2_Witness ==
    /\ sinkCalls > 0
    /\ cycle = 2
    /\ Len(CurThreads) = 2
    /\ tickers[1] # tickers[2]
    /\ sunk[1].ticker = tickers[2]

\* C3: an iteration makes at most one insert_many call, its argument is the
\* whole results list of the iteration, and over the run there are never
\* more calls than iterations.
C3_OneSinkCallPerCycle ==
    /\ sinkCalls <= 1
    /\ totalCalls <= cycle
    /\ sinkCalls = 1 => sunk = results /\ Len(sunk) = Len(tickers)

\* One call that carried two records.
C3_Witness ==
    /\ sinkCalls = 1
    /\ totalCalls = cycle
    /\ Len(sunk) = 2
    /\ pc = "sleep_short"

\* C9: an iteration whose clock evaluation returns closed prints the waiting
\* notice, starts no thread, makes no sink call and goes to the long sleep;
\* the long sleep lasts 60 before the clock is evaluated again; and as long
\* as no evaluation has returned open there is no thread and no sink call.
C9_ClosedIteration ==
    /\ [][(iter' = iter + 1 /\ ~lastEval'.open) =>
            /\ waitNotices' = waitNotices + 1
            /\ pc' = "sleep_long"
            /\ thr' = thr /\ results' = results
            /\ sinkCalls' = sinkCalls /\ totalCalls' = totalCalls
            /\ totalRecords' = totalRecords]_vars
    /\ [][(pc = "sleep_long" /\ pc' # "sleep_long") =>
            \/ pc' = "exited"
            \/ pc' = "check" /\ now' = (now + 60) % WEEK]_vars
    /\ [](pc = "check" /\ iter > 0 /\ ~lastEval.open =>
            now = (lastEval.at + 60) % WEEK)
    /\ [](cycle = 0 => thr = <<>> /\ sinkCalls = 0 /\ totalCalls = 0)

\* Started a minute before the window: one closed evaluation with its
\* notice, the long sleep, then the first open evaluation and its threads.
C9_Witness ==
    /\ waitNotices = 1
    /\ iter = 2 /\ cycle = 1
    /\ lastEval.open /\ lastEval.at = At(0, 9, 15, 0)
    /\ thr # <<>>

\* C10 as stated: an iteration that has launched threads is never cut short
\* by an interrupt; when the loop has exited, the batch of the iteration it
\* was in has been handed to the sink in full.
C10_CycleNeverCutShort ==
    (pc = "exited" /\ cycle > 0 /\ CurThreads # <<>>) =>
        sinkCalls = 1 /\ Len(sunk) = Len(tickers)

\* C10 amended: the interrupt is observed wherever the main thread is inside
\* the loop, the launch and the join included; after an interrupt that
\* arrived before the join completed, the loop has exited with no sink call
\* for that iteration, and only the earlier iterations were written.
C10_InterruptCutsCycle ==
    /\ pc \in {"launch", "join"} => ENABLED Interrupt
    /\ (pc = "exited" /\ intrAt \in {"launch", "join"}) =>
          /\ sinkCalls = 0 /\ sunk = <<>>
          /\ totalCalls = cycle - 1
          /\ exitNotices = 1

\* The loop has exited on an interrupt taken in the join while a thread was
\* still fetching; nothing was handed to the sink.
C10_Witness ==
    /\ pc = "exited" /\ intrAt = "join"
    /\ Len(CurThreads) = 2
    /\ \E i \in DOMAIN thr : thr[i].st = "fetching"
    /\ sinkCalls = 0

----------------------------------------------------------------------------
\* Properties of one fetch (SpecFetch).

FetchOver == fpc # "start"
IsOkResponse == fresp.kind = "response" /\ fresp.status = 200
FoundPriceTag == find_price_tag(fresp.doc)
CleanPriceText == price_clean(FoundPriceTag)
NameText == Strip(fresp.doc.name.text)

\* C4: on every exception of the request and every status other than 200,
\* get_stock_info raises nothing and returns (None, None), and
\* fetch_and_store appends one record for the ticker with "N/A" as
\* company_name and as price, and prints the failure notice.
C4_FailedRequest ==
    (FetchOver /\ ~IsOkResponse) =>
        /\ fpc = "done" /\ ~fraised /\ ~fret.raised
        /\ fret.name = PyNone /\ fret.price = PyNone
        /\ Len(fresults) = 1
        /\ fresults[1].ticker = fticker
        /\ fresults[1].company_name = NA
        /\ fresults[1].price = NA
        /\ fline.kind = "failure"

\* A 503 whose body carries a name and a numeric price all the same.
C4_Witness ==
    /\ fpc = "done"
    /\ fresp.kind = "response" /\ fresp.status = 503
    /\ fresp.doc.name = Tag(<<"A">>)
    /\ fresp.doc.primary = Tag(<<"1">>)
    /\ fline.kind = "failure"
    /\ fresults[1].price = NA

\* C5 as stated: an OK response with the name element and a price element
\* whose cleaned text is numeric gives the success line, a record whose name
\* is not the sentinel and whose price is the parsed number.
C5_WellFormedIsSuccess ==
    (/\ FetchOver /\ IsOkResponse
     /\ fresp.doc.name.present
     /\ FoundPriceTag.present /\ FloatParses(CleanPriceText)) =>
        /\ fpc = "done"
        /\ fline.kind = "success"
        /\ fresults[1].company_name # NA
        /\ fresults[1].price = PyFloat(FloatValue(CleanPriceText))

\* C6 as stated: an OK response without the name element gives the failure
\* notice and the sentinel name, whatever the price element holds; one
\* without a price element gives the failure notice and the sentinel price.
C6_AbsentMarkupIsFailed ==
    /\ (FetchOver /\ IsOkResponse /\ ~fresp.doc.name.present) =>
          fline.kind = "failure" /\ fresults[1].company_name = NA
    /\ (FetchOver /\ IsOkResponse /\ ~FoundPriceTag.present) =>
          fline.kind = "failure" /\ fresults[1].price = NA

----------------------------------------------------------------------------
\* Properties of the market clock (SpecClock).

\* The window 09:15:00 to 15:30:00, both bounds included, by cases.
InWindow(dt) ==
    \/ dt.hour = 9 /\ dt.minute >= 15
    \/ dt.hour >= 10 /\ dt.hour <= 14
    \/ dt.hour = 15 /\ dt.minute < 30
    \/ /\ dt.hour = 15 /\ dt.minute = 30
       /\ dt.second = 0 /\ dt.microsecond = 0

\* C8: is_market_open returns false on Saturday and Sunday, and on Monday to
\* Friday returns true exactly when the time is in the window from 09:15:00
\* to 15:30:00, both bounds included.
C8_MarketWindow ==
    cpc = "done" =>
        /\ cnow.weekday \in {5, 6} => ~cret
        /\ cnow.weekday \in 0..4 => (cret <=> InWindow(cnow))
        /\ (cnow.hour = 8 /\ cnow.minute = 0) => ~cret
        /\ (cnow.hour = 16 /\ cnow.minute = 0) => ~cret

\* Open at exactly 15:30:00 on a Wednesday.
C8_Witness ==
    /\ cpc = "done" /\ cret
    /\ cnow = [weekday |-> 2, hour |-> 15, minute |-> 30, second |-> 0,
               microsecond |-> 0]

----------------------------------------------------------------------------
\* Further properties of the poll loop (Spec).

\* The six positions of the poll loop.
PollPositions ==
    {"check", "launch", "join", "sink", "sleep_short", "sleep_long"}

\* C11: at every position of the poll loop (clock evaluation, launch, join,
\* sink call, short sleep, long sleep) an interrupt can be taken and the step
\* that takes it leaves the loop; once the loop is left no iteration starts,
\* no thread is launched, nothing more is written, the exit notice has been
\* printed exactly once, and main has returned (it has not died on an
\* exception).
C11_InterruptStopsLoop ==
    /\ [](pc \in PollPositions => ENABLED <<Next /\ pc' = "exited">>_vars)
    /\ [][intrAt' # intrAt =>
            /\ pc \in PollPositions /\ intrAt' = pc
            /\ pc' = "exited"
            /\ exitNotices' = exitNotices + 1]_vars
    /\ [][pc = "exited" =>
            /\ pc' = "exited"
            /\ iter' = iter /\ cycle' = cycle
            /\ Len(thr') = Len(thr)
            /\ sinkCalls' = sinkCalls /\ totalCalls' = totalCalls
            /\ totalRecords' = totalRecords
            /\ exitNotices' = exitNotices]_vars
    /\ [](pc = "exited" => exitNotices = 1 /\ intrAt \in PollPositions)
    /\ [](pc # "exited" => exitNotices = 0 /\ intrAt = "none")

\* The loop was left from the short sleep of its second iteration, after two
\* written batches.
C11_Witness ==
    /\ pc = "exited" /\ intrAt = "sleep_short"
    /\ cycle = 2 /\ totalCalls = 2
    /\ exitNotices = 1

Running(t) == ~Finished(t)
SomeRunning == \E i \in DOMAIN thr : Running(thr[i])

\* C12 as stated: whenever the loop is sleeping, evaluating the clock,
\* starting the next iteration or has exited after an interrupt, no thread
\* of an iteration that is over is still running.
C12_NoThreadOutlivesCycle ==
    /\ pc \in {"sleep_short", "sleep_long", "check", "exited"} => ~SomeRunning
    /\ pc = "launch" =>
          \A i \in DOMAIN thr : Running(thr[i]) => thr[i].cyc = cycle

\* C12 amended: while the loop is sleeping, evaluating the clock or starting
\* the next iteration, no thread of an earlier iteration is running, and the
\* same holds after an interrupt taken at the clock, at the sink call or in a
\* sleep; after an interrupt taken in the launch or the join, the threads
\* already launched for that iteration may still be running when the loop
\* has exited, and no others.
C12_ThreadsOutliveOnlyInterruptedCycle ==
    /\ pc \in {"sleep_short", "sleep_long", "check"} => ~SomeRunning
    /\ pc \in {"launch", "join", "sink"} =>
          \A i \in DOMAIN thr : Running(thr[i]) => thr[i].cyc = cycle
    /\ (pc = "exited" /\ intrAt \notin {"launch", "join"}) => ~SomeRunning
    /\ (pc = "exited" /\ SomeRunning) =>
          /\ intrAt \in {"launch", "join"}
          /\ \A i \in DOMAIN thr : Running(thr[i]) => thr[i].cyc = cycle

\* The second iteration is being launched after the first was written; its
\* first thread is fetching and no thread of the first iteration is left.
C12_Witness ==
    /\ pc = "launch" /\ cycle = 2 /\ launchIdx = 1
    /\ Len(tickers) = 2
    /\ \E i \in DOMAIN thr : thr[i].cyc = 2 /\ thr[i].st = "fetching"
    /\ totalCalls = 1

\* C13: an iteration begins only from the clock evaluation, with the clock
\* open at that moment and no thread running; when it is not the first, the
\* batch of the one before has been handed to the sink in one call, and if
\* the evaluation before was the open one of that iteration, exactly the
\* short sleep of 5 lies between the two.  Threads are started only in the
\* launch loop of the current iteration, and a running thread always belongs
\* to the current iteration: two iterations never overlap.
C13_CyclesSequential ==
    /\ [][cycle' # cycle =>
            /\ cycle' = cycle + 1
            /\ pc = "check" /\ pc' = "launch"
            /\ is_market_open(DateTimeOf(now))
            /\ lastEval' = [at |-> now, open |-> TRUE]
            /\ ~SomeRunning
            /\ cycle >= 1 =>
                  /\ sinkCalls = 1 /\ Len(sunk) = Len(tickers)
                  /\ totalCalls = cycle]_vars
    /\ [][Len(thr') > Len(thr) =>
            /\ pc = "launch"
            /\ Len(thr') = Len(thr) + 1
            /\ thr'[Len(thr')].cyc = cycle]_vars
    /\ [][(pc = "sleep_short" /\ pc' # "sleep_short") =>
            \/ pc' = "exited"
            \/ pc' = "check" /\ now' = (now + 5) % WEEK]_vars
    /\ [](pc = "check" /\ iter > 0 /\ lastEval.open =>
            now = (lastEval.at + 5) % WEEK /\ sinkCalls = 1)
    /\ [](\A i \in DOMAIN thr : Running(thr[i]) => thr[i].cyc = cycle)

\* Started five seconds before the close: the second iteration began at
\* exactly 15:30:00, after the first batch was written, and is in its join.
C13_Witness ==
    /\ cycle = 2 /\ pc = "join"
    /\ lastEval = [at |-> At(4, 15, 30, 0), open |-> TRUE]
    /\ totalCalls = 1 /\ totalRecords = Len(tickers)
    /\ Len(CurThreads) = 2

----------------------------------------------------------------------------
\* Progress of the poll loop (SpecLive).

\* C14: with no interrupt and no failure of the sink, every iteration that
\* has begun launching gets through its join, the sink step with its batch
\* written in one call and the short sleep, in that order, and comes back
\* to the clock evaluation with no thread left running; and the clock is
\* then evaluated again, unless the iteration bound of the model is reached.
\* This holds whatever the requests of the threads ended with.
C14_FailuresNeverStall ==
    /\ (pc = "launch") ~> (pc = "check" /\ sinkCalls = 1 /\ ~SomeRunning)
    /\ (pc = "check" /\ iter < MaxIter) ~> (pc # "check" /\ lastEval.at = now)
    /\ [][pc = "launch" => pc' \in {"launch", "join"}]_vars
    /\ [][pc = "join" => pc' \in {"join", "sink"}]_vars
    /\ [][pc = "sink" => pc' \in {"sink", "sleep_short"}]_vars
    /\ [][pc = "sleep_short" => pc' \in {"sleep_short", "check"}]_vars
    /\ [][(pc \in {"launch", "join", "sink"}) => cycle' = cycle]_vars

\* Two tickers, one refused with a status or by the network and one whose
\* page gave a name but no usable price: the iteration is over, its batch of
\* two written, and the loop is back at the clock.
C14_Witness ==
    /\ pc = "check" /\ cycle = 1 /\ sinkCalls = 1 /\ Len(sunk) = 2
    /\ \E i, j \in DOMAIN sunk :
         /\ IsFailedRecord(sunk[i])
         /\ sunk[j].company_name = PyStr(<<"A">>) /\ sunk[j].price = NA
    /\ \A i \in DOMAIN thr : thr[i].line.kind = "failure"

----------------------------------------------------------------------------
\* Failure of the sink and empty input (Spec).

\* C15: a call of insert_many that raises (the call is made, nothing is
\* written) takes main out of the loop with the exception: no exit notice is
\* printed, the batch of that iteration is not among the written ones, and
\* afterwards no iteration begins, no thread is started and nothing more is
\* written or printed by main.
C15_SinkFailurePropagates ==
    /\ [][(sinkCalls' = sinkCalls + 1 /\ totalCalls' = totalCalls) =>
            /\ pc = "sink" /\ pc' = "crashed"
            /\ sunk' = results /\ results # <<>>
            /\ totalRecords' = totalRecords
            /\ exitNotices' = exitNotices /\ intrAt' = intrAt]_vars
    /\ [](pc = "crashed" =>
            /\ exitNotices = 0 /\ intrAt = "none"
            /\ totalCalls = cycle - 1
            /\ totalRecords = (cycle - 1) * Len(tickers))
    /\ [][pc = "crashed" =>
            /\ pc' = "crashed"
            /\ iter' = iter /\ cycle' = cycle /\ Len(thr') = Len(thr)
            /\ sinkCalls' = sinkCalls /\ totalCalls' = totalCalls
            /\ totalRecords' = totalRecords
            /\ waitNotices' = waitNotices
            /\ exitNotices' = exitNotices]_vars

\* The write of the second iteration raised: one batch written, the second
\* handed over and lost, no exit notice.
C15_Witness ==
    /\ pc = "crashed" /\ cycle = 2 /\ sinkCalls = 1 /\ Len(sunk) = 2
    /\ totalCalls = 1 /\ totalRecords = 2 /\ exitNotices = 0

\* C16: every call of insert_many is made with the results list of the
\* iteration and that list is not empty; with no ticker entered main returns
\* from its first check and has then evaluated no clock, printed no waiting
\* or exit notice, started no thread and called the sink not once; main
\* returns this way for the empty list only.
C16_NeverAnEmptyBatch ==
    /\ [](sinkCalls > 0 => sunk # <<>>)
    /\ [][sinkCalls' > sinkCalls =>
            /\ pc = "sink" /\ results # <<>> /\ sunk' = results
            /\ sinkCalls' = sinkCalls + 1]_vars
    /\ [](tickers = <<>> =>
            /\ pc \in {"start", "returned"}
            /\ iter = 0 /\ cycle = 0 /\ lastEval = [at |-> 0, open |-> FALSE]
            /\ thr = <<>> /\ results = <<>>
            /\ sinkCalls = 0 /\ totalCalls = 0 /\ totalRecords = 0
            /\ waitNotices = 0 /\ exitNotices = 0)
    /\ [](pc = "returned" => tickers = <<>>)

\* Nothing entered in the middle of a Wednesday session: main has returned,
\* the open market notwithstanding.
C16_Witness ==
    /\ pc = "returned" /\ tickers = <<>>
    /\ now = At(2, 10, 0, 0) /\ is_market_open(DateTimeOf(now))
    /\ iter = 0 /\ thr = <<>> /\ totalCalls = 0

----------------------------------------------------------------------------
\* Further properties of one fetch (SpecFetch).

\* C17 as stated: the price of the record fetch_and_store appends is the
\* sentinel or a number that is not negative, whatever text the price
\* element held, text that reads as a negative number included.
C17_PriceNeverNegative ==
    fpc = "done" =>
        \A i \in DOMAIN fresults :
            \/ fresults[i].price = NA
            \/ fresults[i].price.t = "float" /\ fresults[i].price.x >= 0

\* C18 as stated: the failure notice is printed exactly when the appended
\* record carries the sentinel as company_name or as price, and a record
\* under a success line carries the name and the price the line reports.
C18_LineAndRecordAgree ==
    fpc = "done" =>
        /\ fline.kind = "failure" <=>
              (fresults[1].company_name = NA \/ fresults[1].price = NA)
        /\ fline.kind = "success" =>
              /\ fresults[1].company_name = fline.name
              /\ fresults[1].price = fline.price

----------------------------------------------------------------------------
\* The batches over the iterations (Spec).

\* C19: every record of the batch handed to the sink in an iteration is the
\* record of a thread launched in that iteration, built after the clock
\* evaluation that began it, and the batch holds as many records as that
\* iteration has threads; so the records written are the tickers times the
\* calls that returned, and once an iteration is over (the loop is in a sleep
\* or back at the clock) the calls that returned are as many as the
\* iterations begun: K iterations over N tickers, K calls, K*N records.
C19_NoCarryOver ==
    /\ sinkCalls > 0 =>
          /\ Len(sunk) = Len(CurThreads)
          /\ \A i \in DOMAIN sunk :
                \E j \in DOMAIN thr :
                   /\ thr[j].cyc = cycle /\ thr[j].st = "done"
                   /\ thr[j].rec = sunk[i]
    /\ (sinkCalls > 0 /\ pc \in {"sleep_short", "crashed"}) =>
          \A i \in DOMAIN sunk :
             lastEval.open /\ sunk[i].timestamp = lastEval.at
    /\ totalRecords = totalCalls * Len(tickers)
    /\ pc \in {"check", "sleep_short", "sleep_long"} => totalCalls = cycle
    /\ pc \in {"launch", "join", "sink"} => totalCalls = cycle - 1

\* Three iterations over two tickers are over: three calls, six records.
C19_Witness ==
    /\ pc = "sleep_short" /\ cycle = 3 /\ Len(tickers) = 2
    /\ totalCalls = 3 /\ totalRecords = 6
    /\ Len(sunk) = 2 /\ exitNotices = 0

====
